---- MODULE Spec2Model ----
(***************************************************************************)
(* A model of fatura2ofx: the scraper that turns the credit-card statement *)
(* page into {DTSERVER, dueDate, BANKTRANLIST}.                            *)
(*                                                                         *)
(* Strings are sequences of one-character strings, so that split, trim,    *)
(* Number, parseInt, parseFloat and the regular expression are computed    *)
(* character by character.  A JavaScript number is a record                *)
(* [nan, v]; amounts are kept in hundredths (v = 5814 for 58.14), which is *)
(* exact for the two-decimal strings extractDecimalCommaString produces.   *)
(* A Date is a record [valid, y, m, d] of its local civil date (m in       *)
(* 1..12); Invalid Date has valid = FALSE.                                 *)
(***************************************************************************)
EXTENDS Integers, Sequences, FiniteSets, TLC

----------------------------------------------------------------------------
(* Characters and strings *)

DigitChars == <<"0", "1", "2", "3", "4", "5", "6", "7", "8", "9">>

IsDigit(c) == \E i \in 1..10 : DigitChars[i] = c

DigitVal(c) == (CHOOSE i \in 1..10 : DigitChars[i] = c) - 1

\* White space as String.prototype.trim, Number and parseInt strip it.
IsSpace(c) == c \in {" ", "\n", "\t"}

RECURSIVE TrimLeft(_)
TrimLeft(s) ==
  IF s # <<>> /\ IsSpace(Head(s)) THEN TrimLeft(Tail(s)) ELSE s

RECURSIVE TrimRight(_)
TrimRight(s) ==
  IF s # <<>> /\ IsSpace(s[Len(s)]) THEN TrimRight(SubSeq(s, 1, Len(s) - 1)) ELSE s

\* String.prototype.trim
Trim(s) == TrimRight(TrimLeft(s))

\* Position of the first c in s, 0 when there is none (indexOf + 1).
FirstIndexOf(s, c) ==
  IF \E i \in 1..Len(s) : s[i] = c
  THEN CHOOSE i \in 1..Len(s) : s[i] = c /\ \A j \in 1..(i - 1) : s[j] # c
  ELSE 0

\* String.prototype.split('/')
RECURSIVE Split(_)
Split(s) ==
  LET p == FirstIndexOf(s, "/")
  IN IF p = 0 THEN <<s>>
     ELSE <<SubSeq(s, 1, p - 1)>> \o Split(SubSeq(s, p + 1, Len(s)))

\* The value of a string of decimal digits.
RECURSIVE DigitsVal(_)
DigitsVal(s) ==
  IF s = <<>> THEN 0
  ELSE 10 * DigitsVal(SubSeq(s, 1, Len(s) - 1)) + DigitVal(s[Len(s)])

\* Length of the longest prefix of s made of decimal digits.
RECURSIVE DigitPrefixLen(_)
DigitPrefixLen(s) ==
  IF s # <<>> /\ IsDigit(Head(s)) THEN 1 + DigitPrefixLen(Tail(s)) ELSE 0

----------------------------------------------------------------------------
(* JavaScript numbers *)

NaN == [nan |-> TRUE, v |-> 0]

Num(n) == [nan |-> FALSE, v |-> n]

\* a + n and a - n for a constant n: NaN (and undefined) stay NaN.
Plus(a, n) == IF a.nan THEN NaN ELSE Num(a.v + n)

\* Number(string) on strings of digits, signs, white space and letters: the
\* empty (or blank) string is 0, an optionally signed run of digits is its
\* value, anything else is NaN.
ToNumber(s) ==
  LET t == Trim(s)
      signed == t # <<>> /\ Head(t) \in {"-", "+"}
      body == IF signed THEN Tail(t) ELSE t
  IN IF t = <<>> THEN Num(0)
     ELSE IF body # <<>> /\ DigitPrefixLen(body) = Len(body)
          THEN Num(IF signed /\ Head(t) = "-" THEN 0 - DigitsVal(body) ELSE DigitsVal(body))
          ELSE NaN

\* An element of an array of numbers, undefined (NaN in arithmetic and in the
\* Date constructor) past its end.
NumAt(arr, i) == IF i <= Len(arr) THEN arr[i] ELSE NaN

\* parseInt(string) in radix 10: leading white space, an optional sign, the
\* longest run of digits; NaN when there is no digit.
ParseInt(s) ==
  LET t == TrimLeft(s)
      signed == t # <<>> /\ Head(t) \in {"-", "+"}
      body == IF signed THEN Tail(t) ELSE t
      n == DigitPrefixLen(body)
  IN IF n = 0 THEN NaN
     ELSE Num(IF signed /\ Head(t) = "-" THEN 0 - DigitsVal(SubSeq(body, 1, n))
              ELSE DigitsVal(SubSeq(body, 1, n)))

----------------------------------------------------------------------------
(* The Date constructor *)

InvalidDate == [valid |-> FALSE, y |-> 0, m |-> 0, d |-> 0]

IsLeap(y) == (y % 4 = 0 /\ y % 100 # 0) \/ y % 400 = 0

DaysInMonth(y, m) ==
  IF m = 2 THEN (IF IsLeap(y) THEN 29 ELSE 28)
  ELSE IF m \in {4, 6, 9, 11} THEN 30 ELSE 31

\* The civil date that is day d (any integer) of month m (1..12) of year y:
\* days past the month's end roll into the next months, days below 1 into
\* the previous ones.
RECURSIVE NormalizeDay(_, _, _)
NormalizeDay(y, m, d) ==
  IF d > DaysInMonth(y, m)
  THEN IF m = 12 THEN NormalizeDay(y + 1, 1, d - DaysInMonth(y, m))
       ELSE NormalizeDay(y, m + 1, d - DaysInMonth(y, m))
  ELSE IF d < 1
  THEN IF m = 1 THEN NormalizeDay(y - 1, 12, d + DaysInMonth(y - 1, 12))
       ELSE NormalizeDay(y, m - 1, d + DaysInMonth(y, m - 1))
  ELSE [valid |-> TRUE, y |-> y, m |-> m, d |-> d]

\* new Date(year, monthIndex, day): Invalid Date when an argument is NaN; a
\* year in 0..99 means 1900 + year; monthIndex (0-based) and day overflow.
NewDate(year, monthIndex, day) ==
  IF year.nan \/ monthIndex.nan \/ day.nan THEN InvalidDate
  ELSE LET yy == IF year.v >= 0 /\ year.v <= 99 THEN 1900 + year.v ELSE year.v
           y == yy + (monthIndex.v \div 12)
           m == (monthIndex.v % 12) + 1
       IN NormalizeDay(y, m, day.v)

\* Date.prototype.getFullYear
GetFullYear(date) == IF date.valid THEN Num(date.y) ELSE NaN

----------------------------------------------------------------------------
(* Date parsing *)

\* A faulty parseDateFromDaySlashMonthSlashYear: month instead of month-1
parseDateWithoutMonthShift(date) ==
  LET parts == Split(Trim(date))
      nums == [i \in 1..Len(parts) |-> ToNumber(parts[i])]
  IN NewDate(Plus(NumAt(nums, 3), 2000), NumAt(nums, 2), NumAt(nums, 1))

parseDateFromDaySlashMonthSlashYear(date) ==
  LET parts == Split(Trim(date))
      nums == [i \in 1..Len(parts) |-> ToNumber(parts[i])]
      day == NumAt(nums, 1)
      month == NumAt(nums, 2)
      year == NumAt(nums, 3)
  IN NewDate(Plus(year, 2000), Plus(month, -1), day)

MonthNames ==
  << <<"j", "a", "n">>, <<"f", "e", "v">>, <<"m", "a", "r">>, <<"a", "b", "r">>,
     <<"m", "a", "i">>, <<"j", "u", "n">>, <<"j", "u", "l">>, <<"a", "g", "o">>,
     <<"s", "e", "t">>, <<"o", "u", "t">>, <<"n", "o", "v">>, <<"d", "e", "z">> >>

\* A faulty parseMonthNumberToAbbreviatedMonthName: indexOf without + 1
monthIndexWithoutPlusOne(monthName) ==
  IF monthName.def /\ \E i \in 1..12 : MonthNames[i] = monthName.s
  THEN (CHOOSE i \in 1..12 : MonthNames[i] = monthName.s) - 1
  ELSE -1

\* Array.prototype.indexOf + 1 on the month names: 0 when monthName is not
\* one of them. monthName is [def, s]: undefined when the text has no '/'.
parseMonthNumberToAbbreviatedMonthName(monthName) ==
  IF monthName.def /\ \E i \in 1..12 : MonthNames[i] = monthName.s
  THEN CHOOSE i \in 1..12 : MonthNames[i] = monthName.s
  ELSE 0

\* [month, day] of "day / month"
parseDateComponentsFromDaySlashMonth(dayMonth) ==
  LET parts == Split(dayMonth)
      dayPart == Trim(parts[1])
      monthPart == IF Len(parts) >= 2 THEN [def |-> TRUE, s |-> Trim(parts[2])]
                   ELSE [def |-> FALSE, s |-> <<>>]
  IN [month |-> Num(parseMonthNumberToAbbreviatedMonthName(monthPart)),
      day |-> ParseInt(dayPart)]

\* A faulty parseDateFromDaySlashMonth: no date for a month that is not known
parseDateOfKnownMonth(dayMonth, year) ==
  LET c == parseDateComponentsFromDaySlashMonth(dayMonth)
  IN IF c.month = Num(0) THEN InvalidDate
     ELSE NewDate(year, Plus(c.month, -1), c.day)

parseDateFromDaySlashMonth(dayMonth, year) ==
  LET c == parseDateComponentsFromDaySlashMonth(dayMonth)
  IN NewDate(year, Plus(c.month, -1), c.day)

----------------------------------------------------------------------------
(* Decimal-comma numbers *)

IsNumChar(c) == IsDigit(c) \/ c = "."

\* The position after the longest run of [0-9.] that starts at position j.
RECURSIVE RunEnd(_, _)
RunEnd(text, j) ==
  IF j <= Len(text) /\ IsNumChar(text[j]) THEN RunEnd(text, j + 1) ELSE j

\* The end of the match of -?[0-9.]+,[0-90]{2} that starts at position i, 0
\* when none starts there. The run [0-9.]+ is greedy and a shorter run is
\* never followed by a comma, so backtracking adds no match.
MatchEndAt(text, i) ==
  LET j == IF text[i] = "-" THEN i + 1 ELSE i
      k == RunEnd(text, j)
  IN IF k > j /\ k + 2 <= Len(text) /\ text[k] = ","
        /\ IsDigit(text[k + 1]) /\ IsDigit(text[k + 2])
     THEN k + 2 ELSE 0

\* A faulty FirstMatch: the last match instead of the first.
LastMatch(text) ==
  LET starts == {i \in 1..Len(text) : MatchEndAt(text, i) # 0}
  IN IF starts = {} THEN [def |-> FALSE, s |-> <<>>]
     ELSE LET i == CHOOSE a \in starts : \A b \in starts : b <= a
          IN [def |-> TRUE, s |-> SubSeq(text, i, MatchEndAt(text, i))]

\* text.match('(-?[0-9.]+,[0-90]{2})') ?? [], first element: the leftmost
\* match of the pattern (no g flag), undefined when there is none.
FirstMatch(text) ==
  LET starts == {i \in 1..Len(text) : MatchEndAt(text, i) # 0}
  IN IF starts = {} THEN [def |-> FALSE, s |-> <<>>]
     ELSE LET i == CHOOSE a \in starts : \A b \in starts : a <= b
          IN [def |-> TRUE, s |-> SubSeq(text, i, MatchEndAt(text, i))]

\* A faulty RemoveDots: replace(/\./, ''), the first '.' only
RemoveFirstDot(s) ==
  LET p == FirstIndexOf(s, ".")
  IN IF p = 0 THEN s ELSE SubSeq(s, 1, p - 1) \o SubSeq(s, p + 1, Len(s))

\* replace(/\./g, '')
RECURSIVE RemoveDots(_)
RemoveDots(s) ==
  IF s = <<>> THEN <<>>
  ELSE IF Head(s) = "." THEN RemoveDots(Tail(s))
  ELSE <<Head(s)>> \o RemoveDots(Tail(s))

\* replace(/,/, '.'): the first comma only
ReplaceFirstComma(s) ==
  LET p == FirstIndexOf(s, ",")
  IN IF p = 0 THEN s ELSE [s EXCEPT ![p] = "."]

\* The result is [def, s]: undefined (def = FALSE) when nothing matches.
extractDecimalCommaString(text) ==
  LET number == FirstMatch(text)
  IN IF number.def
     THEN [def |-> TRUE, s |-> ReplaceFirstComma(RemoveDots(number.s))]
     ELSE [def |-> FALSE, s |-> <<>>]

\* parseFloat of a string or undefined, in hundredths: leading white space,
\* an optional sign, digits, an optional point and digits; NaN when no digit
\* is found (parseFloat(undefined) reads "undefined"). Digits past the
\* second decimal are dropped.
ParseFloat(str) ==
  LET t == TrimLeft(str.s)
      signed == t # <<>> /\ Head(t) \in {"-", "+"}
      body == IF signed THEN Tail(t) ELSE t
      n == DigitPrefixLen(body)
      rest == SubSeq(body, n + 1, Len(body))
      frac == IF rest # <<>> /\ Head(rest) = "." THEN Tail(rest) ELSE <<>>
      f == DigitPrefixLen(frac)
      f1 == IF f >= 1 THEN DigitVal(frac[1]) ELSE 0
      f2 == IF f >= 2 THEN DigitVal(frac[2]) ELSE 0
      mag == 100 * DigitsVal(SubSeq(body, 1, n)) + 10 * f1 + f2
  IN IF ~str.def \/ (n = 0 /\ f = 0) THEN NaN
     ELSE Num(IF signed /\ Head(t) = "-" THEN 0 - mag ELSE mag)

parseFloatFromDecimalCommaString(number) ==
  ParseFloat(extractDecimalCommaString(number))

\* Boolean(e) of a string or undefined: false for undefined and for ''.
Truthy(e) == e.def /\ e.s # <<>>

----------------------------------------------------------------------------
(* The document tree *)

(***************************************************************************)
(* A document is a sequence of element nodes in document order (preorder): *)
(* node i is [tag, cls, hidden, text, parent], with cls its set of class   *)
(* names, hidden whether it carries aria-hidden="true", text the text node *)
(* that is its first child (further text is carried by child elements) and *)
(* parent the index of its parent, 0 for the root. 0 also stands for the   *)
(* document itself as the scope of a query, and for null as a result.      *)
(***************************************************************************)

null == 0

\* Whether a is an ancestor of n (a = 0: the document, an ancestor of all).
RECURSIVE IsAncestor(_, _, _)
IsAncestor(d, a, n) ==
  LET p == d[n].parent
  IN p = a \/ (p # 0 /\ IsAncestor(d, a, p))

\* The members of a set of node indices in document order.
RECURSIVE InOrder(_)
InOrder(S) ==
  IF S = {} THEN <<>>
  ELSE LET lo == CHOOSE a \in S : \A b \in S : a <= b
       IN <<lo>> \o InOrder(S \ {lo})

\* Element.getElementsByClassName / Document.getElementsByClassName
getElementsByClassName(d, n, c) ==
  InOrder({e \in 1..Len(d) : IsAncestor(d, n, e) /\ c \in d[e].cls})

\* Element.getElementsByTagName
getElementsByTagName(d, n, t) ==
  InOrder({e \in 1..Len(d) : IsAncestor(d, n, e) /\ d[e].tag = t})

\* Element.querySelector('.' + c): the first descendant of class c, or null
querySelectorClass(d, n, c) ==
  LET found == getElementsByClassName(d, n, c)
  IN IF found = <<>> THEN null ELSE found[1]

\* Element.querySelectorAll('span:not([aria-hidden="true"])')
querySelectorAllVisibleSpans(d, n) ==
  InOrder({e \in 1..Len(d) :
             IsAncestor(d, n, e) /\ d[e].tag = "span" /\ ~d[e].hidden})

\* Element.querySelectorAll('.' + c + ' span:not([aria-hidden="true"])'): the
\* ancestor of class c may be any ancestor of the span, the span a
\* descendant of n.
querySelectorAllVisibleSpansIn(d, n, c) ==
  InOrder({e \in 1..Len(d) :
             /\ IsAncestor(d, n, e) /\ d[e].tag = "span" /\ ~d[e].hidden
             /\ \E a \in 1..Len(d) : IsAncestor(d, a, e) /\ c \in d[a].cls})

\* Element.closest(tag): the element itself or its nearest ancestor with
\* that tag name, null when there is none.
RECURSIVE closest(_, _, _)
closest(d, e, t) ==
  IF e = 0 THEN null
  ELSE IF d[e].tag = t THEN e
  ELSE closest(d, d[e].parent, t)

\* The texts of nodes lo..Len(d) that are n or below it, concatenated.
RECURSIVE TextFrom(_, _, _)
TextFrom(d, n, lo) ==
  IF lo > Len(d) THEN <<>>
  ELSE (IF lo = n \/ IsAncestor(d, n, lo) THEN d[lo].text ELSE <<>>)
       \o TextFrom(d, n, lo + 1)

\* Node.textContent
textContent(d, n) == TextFrom(d, n, n)

----------------------------------------------------------------------------
(* Scraping functions (the tbody page variant) *)

\* The result of a call that may throw: ok = FALSE when it threw a TypeError
\* (a property read on undefined or null), val its value otherwise.
Thrown == [ok |-> FALSE, val |-> null]

Returned(v) == [ok |-> TRUE, val |-> v]

Undefined == [def |-> FALSE, s |-> <<>>]

\* A faulty firstOccurence: the last occurrence is kept.
lastOccurence(value, index, array) ==
  (CHOOSE i \in 1..Len(array) :
     array[i] = value /\ \A j \in (i + 1)..Len(array) : array[j] # value) = index

\* array.indexOf(value) === index (positions are 1-based here)
firstOccurence(value, index, array) ==
  (CHOOSE i \in 1..Len(array) :
     array[i] = value /\ \A j \in 1..(i - 1) : array[j] # value) = index

\* array.filter(firstOccurence), from position i on
RECURSIVE FilterFirstOccurence(_, _)
FilterFirstOccurence(array, i) ==
  IF i > Len(array) THEN <<>>
  ELSE (IF firstOccurence(array[i], i, array) THEN <<array[i]>> ELSE <<>>)
       \o FilterFirstOccurence(array, i + 1)

\* [...dateNodes].map(e => e.closest('tbody'))
TbodyOfMarkers(d) ==
  LET dateNodes == getElementsByClassName(d, 0, "fatura__table-col-dsc")
  IN [i \in 1..Len(dateNodes) |-> closest(d, dateNodes[i], "tbody")]

findTransactionNodes(d) == FilterFirstOccurence(TbodyOfMarkers(d), 1)

scrapeDueDate(d) ==
  LET venc == getElementsByClassName(d, 0, "c-category-status__venc")
      value == getElementsByClassName(d, venc[1], "c-category-status__value")
  IN IF venc = <<>> THEN Thrown
     ELSE IF value = <<>> THEN Thrown
     ELSE Returned(parseDateFromDaySlashMonthSlashYear(textContent(d, value[1])))

\* The td of the amount: val = null stands for undefined (the row has no
\* amount cell); it throws when node is null or no tr holds a description.
findTrnamtTd(d, node) ==
  LET trs == getElementsByTagName(d, node, "tr")
      rows == SelectSeq(trs,
                LAMBDA e : querySelectorClass(d, e, "fatura__table-col-dsc") # null)
      tds == getElementsByClassName(d, rows[1], "fatura__table-col-num")
  IN IF node = null THEN Thrown
     ELSE IF rows = <<>> THEN Thrown
     ELSE IF tds = <<>> THEN Returned(null)
     ELSE Returned(tds[1])

\* The first truthy element of an array of strings, or undefined
FirstTruthy(values) ==
  LET kept == SelectSeq(values, Truthy)
  IN IF kept = <<>> THEN Undefined ELSE kept[1]

scrapeStmtTrnFromNode(d, node, year) ==
  LET td == findTrnamtTd(d, node)
      spans == querySelectorAllVisibleSpans(d, td.val)
      values == [i \in 1..Len(spans) |->
                   extractDecimalCommaString(textContent(d, spans[i]))]
      TRNAMT == ParseFloat(FirstTruthy(values))
      dsc == getElementsByClassName(d, node, "fatura__table-col-dsc")
      MEMO == Trim(textContent(d, dsc[1]))
      data == getElementsByClassName(d, node, "fatura__table-col-data")
      DTPOSTED == parseDateFromDaySlashMonth(Trim(textContent(d, data[1])), year)
  IN IF ~td.ok \/ td.val = null THEN Thrown
     ELSE IF dsc = <<>> THEN Thrown
     ELSE IF data = <<>> THEN Thrown
     ELSE Returned([DTPOSTED |-> DTPOSTED, MEMO |-> MEMO, TRNAMT |-> TRNAMT])

----------------------------------------------------------------------------
(* Scraping functions (the table page variant) *)

\* [...dateNodes].map(e => e.closest('table'))
TableOfMarkers(d) ==
  LET dateNodes == getElementsByClassName(d, 0, "fatura__table-col-data")
  IN [i \in 1..Len(dateNodes) |-> closest(d, dateNodes[i], "table")]

getTransactionNodes(d) == FilterFirstOccurence(TableOfMarkers(d), 1)

\* The year passed to parseDateFromDaySlashMonth by getStmtTrnFromNode
FixedYear == 2023

getStmtTrnFromNode(d, node) ==
  LET spans == querySelectorAllVisibleSpansIn(d, node, "fatura__table-col-num")
      values == [i \in 1..Len(spans) |->
                   extractDecimalCommaString(textContent(d, spans[i]))]
      TRNAMT == ParseFloat(FirstTruthy(values))
      dsc == getElementsByClassName(d, node, "fatura__table-col-dsc")
      MEMO == Trim(textContent(d, dsc[1]))
      data == getElementsByClassName(d, node, "fatura__table-col-data")
      DTPOSTED == parseDateFromDaySlashMonth(Trim(textContent(d, data[1])),
                                             Num(FixedYear))
  IN IF node = null THEN Thrown
     ELSE IF dsc = <<>> THEN Thrown
     ELSE IF data = <<>> THEN Thrown
     ELSE Returned([DTPOSTED |-> DTPOSTED, MEMO |-> MEMO, TRNAMT |-> TRNAMT])

\* getDueDate has the body of scrapeDueDate
getDueDate(d) == scrapeDueDate(d)

----------------------------------------------------------------------------
(* Documents *)

(***************************************************************************)
(* A block is a sequence of nodes in document order whose parents are      *)
(* positions in the block, 0 for the node the block hangs from.            *)
(***************************************************************************)

El(tag, cls, hidden, text) ==
  [tag |-> tag, cls |-> cls, hidden |-> hidden, text |-> text, parent |-> 0]

\* The block as it stands after off other nodes, hanging from node at.
Attach(block, off, at) ==
  [i \in 1..Len(block) |->
     [block[i] EXCEPT !.parent = IF @ = 0 THEN at ELSE @ + off]]

\* The blocks one after the other from position off + 1, all hanging from at.
RECURSIVE Under(_, _, _)
Under(blocks, off, at) ==
  IF blocks = <<>> THEN <<>>
  ELSE Attach(Head(blocks), off, at)
       \o Under(Tail(blocks), off + Len(Head(blocks)), at)

\* The element el with the blocks kids as its children.
Node(el, kids) == <<el>> \o Under(kids, 1, 1)

Div(cls, text, kids) == Node(El("div", {cls}, FALSE, text), kids)

Span(hidden, text, kids) == Node(El("span", {}, hidden, text), kids)

Td(cls, text, kids) == Node(El("td", cls, FALSE, text), kids)

Tr(kids) == Node(El("tr", {}, FALSE, <<>>), kids)

\* table > tbody > rows
Table(rows) ==
  Node(El("table", {}, FALSE, <<>>), <<Node(El("tbody", {}, FALSE, <<>>), rows)>>)

\* The due-date section of the page, with the text of its value element
DueSection(text) ==
  Div("c-category-status__venc", <<>>,
      << Node(El("span", {"c-category-status__value"}, FALSE, text), <<>>) >>)

DueBlocks ==
  << DueSection(<<"1", "5", "/", "0", "7", "/", "2", "0">>),
     DueSection(<<" ", "2", "4", "/", "0", "4", "/", "2", "1", "\n">>),
     DueSection(<<"1", "5", "/", "0", "7">>),
     DueSection(<<"a", "b", "/", "0", "7", "/", "2", "0">>),
     DueSection(<<"1", "/", "2", "/", "3", "/", "4">>),
     \* the marker without its value element
     Div("c-category-status__venc", <<"1", "5", "/", "0", "7", "/", "2", "0">>, <<>>),
     \* no marker at all
     << >> >>

DateTd(text) == Td({"fatura__table-col-data"}, text, <<>>)

DscTd(text) == Td({"fatura__table-col-dsc"}, text, <<>>)

NumTd(text, spans) == Td({"fatura__table-col-num"}, text, spans)

\* A row with the three cells
Row(date, memo, spans) == Tr(<<DateTd(date), DscTd(memo), NumTd(<<>>, spans)>>)

\* The transactions a page may hold, each in a table of its own.
TrnBlocks ==
  << \* 1: an expense, one visible span
     Table(<<Row(<<"2", "3", " ", "/", " ", "a", "b", "r">>, <<" ", "A", "m", "a", "z", "o", "n", " ", "B", "r", " ", " ", "0", "3", "/", "0", "4", "\n">>, <<Span(FALSE, <<"5", "8", ",", "1", "4">>, <<>>)>>)>>),
     \* 2: a payment, the currency sign in a span of its own
     Table(<<Row(<<"\n", "1", "7", " ", "/", " ", "j", "u", "n", "\n">>, <<"P", "A", "G", "A", "M", "E", "N", "T", "O">>,
                 <<Span(FALSE, <<"R", "$", "\n">>, <<>>), Span(FALSE, <<"-", "1", "0", ".", "8", "2", "3", ",", "9", "7">>, <<>>)>>)>>),
     \* 3: dual currency, the hidden amount first
     Table(<<Row(<<"0", "6", "/", "j", "u", "l">>, <<"P", "i", "n", "b", "o", "a", "r", "d">>,
                 <<Span(TRUE, <<"U", "S", "$", " ", "2", "3", ",", "5", "0", "\n">>, <<>>), Span(FALSE, <<"1", "2", "7", ",", "8", "2">>, <<>>)>>)>>),
     \* 4: dual currency, the hidden amount last
     Table(<<Row(<<"0", "6", "/", "j", "u", "l">>, <<"P", "i", "n", "b", "o", "a", "r", "d">>,
                 <<Span(FALSE, <<"1", "2", "7", ",", "8", "2">>, <<>>), Span(TRUE, <<"U", "S", "$", " ", "2", "3", ",", "5", "0", "\n">>, <<>>)>>)>>),
     \* 5: dual currency, both spans inside a visible span
     Table(<<Row(<<"0", "6", "/", "j", "u", "l">>, <<"P", "i", "n", "b", "o", "a", "r", "d">>,
                 <<Span(FALSE, <<>>, <<Span(TRUE, <<"U", "S", "$", " ", "2", "3", ",", "5", "0", "\n">>, <<>>),
                                        Span(FALSE, <<"1", "2", "7", ",", "8", "2">>, <<>>)>>)>>)>>),
     \* 6: dual currency, the visible span inside the hidden one
     Table(<<Row(<<"0", "6", "/", "j", "u", "l">>, <<"P", "i", "n", "b", "o", "a", "r", "d">>,
                 <<Span(TRUE, <<"U", "S", "$", " ", "2", "3", ",", "5", "0", "\n">>, <<Span(FALSE, <<"1", "2", "7", ",", "8", "2">>, <<>>)>>)>>)>>),
     \* 7: no span holds a number
     Table(<<Row(<<"2", "3", " ", "/", " ", "a", "b", "r">>, <<" ", "A", "m", "a", "z", "o", "n", " ", "B", "r", " ", " ", "0", "3", "/", "0", "4", "\n">>, <<Span(FALSE, <<"R", "$", "\n">>, <<>>)>>)>>),
     \* 8: a month name that is not in the table
     Table(<<Row(<<"2", "4", " ", "/", " ", "x", "y", "z">>, <<" ", "A", "m", "a", "z", "o", "n", " ", "B", "r", " ", " ", "0", "3", "/", "0", "4", "\n">>, <<Span(FALSE, <<"5", "8", ",", "1", "4">>, <<>>)>>)>>),
     \* 9: a day past the end of December
     Table(<<Row(<<"3", "2", " ", "/", " ", "d", "e", "z">>, <<" ", "A", "m", "a", "z", "o", "n", " ", "B", "r", " ", " ", "0", "3", "/", "0", "4", "\n">>, <<Span(FALSE, <<"5", "8", ",", "1", "4">>, <<>>)>>)>>),
     \* 10: no date cell
     Table(<<Tr(<<DscTd(<<" ", "A", "m", "a", "z", "o", "n", " ", "B", "r", " ", " ", "0", "3", "/", "0", "4", "\n">>), NumTd(<<>>, <<Span(FALSE, <<"5", "8", ",", "1", "4">>, <<>>)>>)>>)>>),
     \* 11: no amount cell
     Table(<<Tr(<<DateTd(<<"2", "3", " ", "/", " ", "a", "b", "r">>), DscTd(<<" ", "A", "m", "a", "z", "o", "n", " ", "B", "r", " ", " ", "0", "3", "/", "0", "4", "\n">>)>>)>>),
     \* 12: two description cells in one transaction
     Table(<<Row(<<"2", "3", " ", "/", " ", "a", "b", "r">>, <<" ", "A", "m", "a", "z", "o", "n", " ", "B", "r", " ", " ", "0", "3", "/", "0", "4", "\n">>, <<Span(FALSE, <<"5", "8", ",", "1", "4">>, <<>>)>>),
             Tr(<<DateTd(<<>>), DscTd(<<"P", "i", "n", "b", "o", "a", "r", "d">>)>>)>>),
     \* 13: a transaction inside another, and a second description cell of
     \* the outer one after it
     Table(<<Row(<<"2", "3", " ", "/", " ", "a", "b", "r">>, <<" ", "A", "m", "a", "z", "o", "n", " ", "B", "r", " ", " ", "0", "3", "/", "0", "4", "\n">>, <<Span(FALSE, <<"5", "8", ",", "1", "4">>, <<>>)>>),
             Tr(<<Td({}, <<>>,
                     <<Table(<<Row(<<"\n", "1", "7", " ", "/", " ", "j", "u", "n", "\n">>, <<"P", "A", "G", "A", "M", "E", "N", "T", "O">>,
                                   <<Span(FALSE, <<"-", "1", "0", ".", "8", "2", "3", ",", "9", "7">>, <<>>)>>)>>)>>)>>),
             Tr(<<DateTd(<<>>), DscTd(<<"P", "i", "n", "b", "o", "a", "r", "d">>)>>)>>),
     \* 14: a description element and a date element outside any table
     Div("fatura__table-col-dsc", <<" ", "A", "m", "a", "z", "o", "n", " ", "B", "r", " ", " ", "0", "3", "/", "0", "4", "\n">>,
         <<Div("fatura__table-col-data", <<"2", "3", " ", "/", " ", "a", "b", "r">>, <<>>)>>) >>

NDue == Len(DueBlocks)

NTrn == Len(TrnBlocks)

\* The page with due-date section due (an index of DueBlocks) and the
\* transactions trns (a sequence of indices of TrnBlocks).
MakeDocument(due, trns) ==
  Node(El("body", {}, FALSE, <<>>),
       <<DueBlocks[due]>> \o [i \in 1..Len(trns) |-> TrnBlocks[trns[i]]])

----------------------------------------------------------------------------
(* The scrape as a state machine *)

\* The most transactions a page of the model holds
MaxTrans == 2

\* The most calls of scrapeOFXData (getOFXData) made on one page
MaxCalls == 2

VARIABLES
  variant,           \* "tbody": scrapeOFXData; "table": getOFXData
  due,               \* the page: its due-date section, an index of DueBlocks
  trns,              \* the page: its transactions, indices of TrnBlocks
  pc,                \* where the call stands: idle, nodes, listDue, map, due,
                     \* done (the object was returned), error (it threw)
  clock,             \* the wall clock new Date() reads
  DTSERVER,
  transactionNodes,  \* scrapeBankTranList's transactionNodes
  year,              \* dueDate.getFullYear() in scrapeBankTranList
  bankTranList,      \* the array map() is building
  BANKTRANLIST,
  dueDate,
  calls,             \* how many calls were made on the page, this one included
  first,             \* what the first call ended with, once a later one began
  din,               \* date parsing on its own: the day, month and layout
  dcall,             \*   the parser called and the year it was given
  dateOut,           \*   the Date returned
  nin,               \* number parsing on its own: what the text is made of
  ncall,             \*   the function called
  strOut,            \*   the string extracted, [def, s]
  numOut             \*   the number parsed, [nan, v]

scrapeVars ==
  <<variant, due, trns, pc, clock, DTSERVER, transactionNodes, year,
    bankTranList, BANKTRANLIST, dueDate, calls, first>>

dateVars == <<din, dcall, dateOut>>

numberVars == <<nin, ncall, strOut, numOut>>

vars == <<scrapeVars, dateVars, numberVars>>

\* The page being scraped
document == MakeDocument(due, trns)

Pages == UNION {[1..n -> 1..NTrn] : n \in 0..MaxTrans}

\* No call has ended yet
NoFirst ==
  [outcome |-> "none", DTSERVER |-> 0, dueDate |-> InvalidDate,
   BANKTRANLIST |-> <<>>, due |-> 0, trns |-> <<>>]

ScrapeIdle ==
  /\ pc = "idle"
  /\ clock = 1
  /\ DTSERVER = 0
  /\ transactionNodes = <<>>
  /\ year = NaN
  /\ bankTranList = <<>>
  /\ BANKTRANLIST = <<>>
  /\ dueDate = InvalidDate
  /\ calls = 1
  /\ first = NoFirst

DateIdle ==
  /\ dcall = [fn |-> "none", year |-> 0]
  /\ dateOut = InvalidDate

NumberIdle ==
  /\ ncall = "none"
  /\ strOut = Undefined
  /\ numOut = NaN

NoPage == variant = "tbody" /\ due = 1 /\ trns = <<>>

NoDateInput == din = [d |-> 1, m |-> 1, fmt |-> 1]

NoNumberInput ==
  nin = [pre |-> 1, neg |-> FALSE, n |-> 0, f |-> 0, second |-> 0, suf |-> 1]

Init ==
  /\ variant \in {"tbody", "table"}
  /\ due \in 1..NDue
  /\ trns \in Pages
  \* a page whose due-date section is not the plain one holds one transaction
  \* at most
  /\ due # 1 => Len(trns) <= 1
  /\ ScrapeIdle
  /\ NoDateInput /\ DateIdle
  /\ NoNumberInput /\ NumberIdle

\* scrapeOFXData: DTSERVER: new Date(), then BANKTRANLIST: scrapeBankTranList
ScrapeOFXData ==
  /\ pc = "idle" /\ variant = "tbody"
  /\ DTSERVER' = clock
  /\ clock' = clock + 1
  /\ pc' = "nodes"
  /\ UNCHANGED <<dateVars, numberVars, calls, first>>
  /\ UNCHANGED <<variant, due, trns, transactionNodes, year, bankTranList,
                 BANKTRANLIST, dueDate>>

\* scrapeBankTranList: const transactionNodes = findTransactionNodes(document)
FindTransactionNodes ==
  /\ pc = "nodes" /\ variant = "tbody"
  /\ transactionNodes' = findTransactionNodes(document)
  /\ pc' = "listDue"
  /\ UNCHANGED <<dateVars, numberVars, calls, first>>
  /\ UNCHANGED <<variant, due, trns, clock, DTSERVER, year, bankTranList,
                 BANKTRANLIST, dueDate>>

\* scrapeBankTranList: const dueDate = scrapeDueDate(document), and the
\* dueDate.getFullYear() that map's callback uses
ScrapeListDueDate ==
  /\ pc = "listDue"
  /\ LET r == scrapeDueDate(document)
     IN IF r.ok THEN year' = GetFullYear(r.val) /\ pc' = "map"
        ELSE year' = year /\ pc' = "error"
  /\ UNCHANGED <<dateVars, numberVars, calls, first>>
  /\ UNCHANGED <<variant, due, trns, clock, DTSERVER, transactionNodes,
                 bankTranList, BANKTRANLIST, dueDate>>

\* scrapeBankTranList: one call of map's callback
ScrapeStmtTrn ==
  /\ pc = "map" /\ variant = "tbody"
  /\ Len(bankTranList) < Len(transactionNodes)
  /\ LET r == scrapeStmtTrnFromNode(
                document, transactionNodes[Len(bankTranList) + 1], year)
     IN IF r.ok THEN bankTranList' = Append(bankTranList, r.val) /\ pc' = pc
        ELSE bankTranList' = bankTranList /\ pc' = "error"
  /\ UNCHANGED <<dateVars, numberVars, calls, first>>
  /\ UNCHANGED <<variant, due, trns, clock, DTSERVER, transactionNodes, year,
                 BANKTRANLIST, dueDate>>

\* scrapeBankTranList and getBankTranList: return bankTranList
ReturnBankTranList ==
  /\ pc = "map"
  /\ Len(bankTranList) = Len(transactionNodes)
  /\ BANKTRANLIST' = bankTranList
  /\ pc' = "due"
  /\ UNCHANGED <<dateVars, numberVars, calls, first>>
  /\ UNCHANGED <<variant, due, trns, clock, DTSERVER, transactionNodes, year,
                 bankTranList, dueDate>>

\* scrapeOFXData: dueDate: scrapeDueDate(document), and the object returned
ScrapeDueDate ==
  /\ pc = "due" /\ variant = "tbody"
  /\ LET r == scrapeDueDate(document)
     IN IF r.ok THEN dueDate' = r.val /\ pc' = "done"
        ELSE dueDate' = dueDate /\ pc' = "error"
  /\ UNCHANGED <<dateVars, numberVars, calls, first>>
  /\ UNCHANGED <<variant, due, trns, clock, DTSERVER, transactionNodes, year,
                 bankTranList, BANKTRANLIST>>

\* getOFXData: DTSERVER: new Date(), then BANKTRANLIST: getBankTranList
GetOFXData ==
  /\ pc = "idle" /\ variant = "table"
  /\ DTSERVER' = clock
  /\ clock' = clock + 1
  /\ pc' = "nodes"
  /\ UNCHANGED <<dateVars, numberVars, calls, first>>
  /\ UNCHANGED <<variant, due, trns, transactionNodes, year, bankTranList,
                 BANKTRANLIST, dueDate>>

\* getBankTranList: const transactionNodes = getTransactionNodes(html)
GetTransactionNodes ==
  /\ pc = "nodes" /\ variant = "table"
  /\ transactionNodes' = getTransactionNodes(document)
  /\ pc' = "map"
  /\ UNCHANGED <<dateVars, numberVars, calls, first>>
  /\ UNCHANGED <<variant, due, trns, clock, DTSERVER, year, bankTranList,
                 BANKTRANLIST, dueDate>>

\* getBankTranList: one call of map's callback
GetStmtTrn ==
  /\ pc = "map" /\ variant = "table"
  /\ Len(bankTranList) < Len(transactionNodes)
  /\ LET r == getStmtTrnFromNode(
                document, transactionNodes[Len(bankTranList) + 1])
     IN IF r.ok THEN bankTranList' = Append(bankTranList, r.val) /\ pc' = pc
        ELSE bankTranList' = bankTranList /\ pc' = "error"
  /\ UNCHANGED <<dateVars, numberVars, calls, first>>
  /\ UNCHANGED <<variant, due, trns, clock, DTSERVER, transactionNodes, year,
                 BANKTRANLIST, dueDate>>

\* getOFXData: dueDate: getDueDate(html), and the object returned
GetDueDate ==
  /\ pc = "due" /\ variant = "table"
  /\ LET r == getDueDate(document)
     IN IF r.ok THEN dueDate' = r.val /\ pc' = "done"
        ELSE dueDate' = dueDate /\ pc' = "error"
  /\ UNCHANGED <<dateVars, numberVars, calls, first>>
  /\ UNCHANGED <<variant, due, trns, clock, DTSERVER, transactionNodes, year,
                 bankTranList, BANKTRANLIST>>

\* A faulty scrape, which detaches the rows it has read from the page
pageWithoutRows(page) == [page EXCEPT !.trns = <<>>]

\* The page a call leaves behind: getElementsByClassName, getElementsByTagName,
\* querySelector, querySelectorAll, closest and textContent only read the
\* tree, and no function of the scrape assigns to it.
pageAfterScrape(page) == page

\* The caller scrapes the same document once more, the earlier call having
\* returned or thrown: the locals of the functions are new, the clock and the
\* page are what the earlier call left.
ScrapeAgain ==
  /\ pc \in {"done", "error"}
  /\ calls < MaxCalls
  /\ first' = IF calls = 1
              THEN [outcome |-> pc, DTSERVER |-> DTSERVER, dueDate |-> dueDate,
                    BANKTRANLIST |-> BANKTRANLIST, due |-> due, trns |-> trns]
              ELSE first
  /\ calls' = calls + 1
  /\ LET page == pageAfterScrape([due |-> due, trns |-> trns])
     IN due' = page.due /\ trns' = page.trns
  /\ pc' = "idle"
  /\ transactionNodes' = <<>>
  /\ year' = NaN
  /\ bankTranList' = <<>>
  /\ BANKTRANLIST' = <<>>
  /\ dueDate' = InvalidDate
  /\ UNCHANGED <<dateVars, numberVars>>
  /\ UNCHANGED <<variant, clock, DTSERVER>>

Next ==
  \/ ScrapeOFXData
  \/ FindTransactionNodes
  \/ ScrapeListDueDate
  \/ ScrapeStmtTrn
  \/ ReturnBankTranList
  \/ ScrapeDueDate
  \/ GetOFXData
  \/ GetTransactionNodes
  \/ GetStmtTrn
  \/ GetDueDate
  \/ ScrapeAgain

Spec == Init /\ [][Next]_vars

----------------------------------------------------------------------------
(* The date parsers on their own *)

\* The largest day of the month the texts are written with
MaxDay == 31

\* The decimal digits of a natural number
RECURSIVE DigitsOf(_)
DigitsOf(n) ==
  IF n < 10 THEN <<DigitChars[n + 1]>>
  ELSE DigitsOf(n \div 10) \o <<DigitChars[(n % 10) + 1]>>

\* A number below 100 written with two digits
TwoDigits(n) == <<DigitChars[(n \div 10) + 1], DigitChars[(n % 10) + 1]>>

\* The month texts: the twelve names, then texts that are no month name (an
\* unknown word, names in another letter case, a longer name, nothing)
MonthTexts ==
  MonthNames \o << <<"x", "y", "z">>, <<"A", "b", "r">>, <<"D", "E", "Z">>,
                   <<"a", "b", "r", "i", "l">>, <<>> >>

NMonthTexts == Len(MonthTexts)

\* The month index that stands for a text without month part: no '/' in it
NoMonthPart == NMonthTexts + 1

\* The two-digit years of the dd/mm/yy texts
TwoDigitYears == {0, 20, 21, 24, 99}

\* The years handed to parseDateFromDaySlashMonth
Years == {23, 99, 100, 1900, 2020, 2023, 2024}

\* "dd/mm/yy" in one of three layouts: bare, and inside white space
DayMonthYearText(d, m, yy, fmt) ==
  LET core == TwoDigits(d) \o <<"/">> \o TwoDigits(m) \o <<"/">> \o TwoDigits(yy)
  IN CASE fmt = 1 -> core
       [] fmt = 2 -> <<" ">> \o core \o <<"\n">>
       [] OTHER -> <<"\n", "\t", " ">> \o core \o <<" ", " ">>

\* "d / abbr" in one of three layouts of the white space around the slash;
\* the day alone when the month part is missing
DayMonthText(d, m, fmt) ==
  IF m = NoMonthPart
  THEN CASE fmt = 1 -> DigitsOf(d)
         [] fmt = 2 -> TwoDigits(d) \o <<" ">>
         [] OTHER -> <<" ">> \o DigitsOf(d) \o <<"\n">>
  ELSE CASE fmt = 1 -> DigitsOf(d) \o <<"/">> \o MonthTexts[m]
         [] fmt = 2 -> TwoDigits(d) \o <<" ", "/", " ">> \o MonthTexts[m]
         [] OTHER -> <<" ">> \o DigitsOf(d) \o <<" ", " ", "/", "\t">>
                     \o MonthTexts[m] \o <<"\n">>

InitDate ==
  /\ NoPage /\ ScrapeIdle
  /\ din \in [d : 1..MaxDay, m : 1..NoMonthPart, fmt : 1..3]
  /\ DateIdle
  /\ NoNumberInput /\ NumberIdle

CallParseDayMonthYear ==
  /\ dcall.fn = "none"
  /\ din.m <= 12
  /\ \E yy \in TwoDigitYears :
       /\ dcall' = [fn |-> "dmy", year |-> yy]
       /\ dateOut' = parseDateFromDaySlashMonthSlashYear(
                       DayMonthYearText(din.d, din.m, yy, din.fmt))
  /\ UNCHANGED <<scrapeVars, numberVars, din>>

CallParseDayMonth ==
  /\ dcall.fn = "none"
  /\ \E y \in Years :
       /\ dcall' = [fn |-> "dm", year |-> y]
       /\ dateOut' = parseDateFromDaySlashMonth(
                       DayMonthText(din.d, din.m, din.fmt), Num(y))
  /\ UNCHANGED <<scrapeVars, numberVars, din>>

NextDate == CallParseDayMonthYear \/ CallParseDayMonth

SpecDate == InitDate /\ [][NextDate]_vars

----------------------------------------------------------------------------
(* The decimal-comma functions on their own *)

\* The digits of n with a '.' before every group of three
RECURSIVE GroupThousands(_)
GroupThousands(n) ==
  IF n < 1000 THEN DigitsOf(n)
  ELSE GroupThousands(n \div 1000) \o <<".">>
       \o <<DigitChars[((n \div 100) % 10) + 1]>> \o TwoDigits(n % 100)

\* The decimal-comma text of the amount of magnitude n + f/100
DecimalCommaText(neg, n, f) ==
  (IF neg THEN <<"-">> ELSE <<>>) \o GroupThousands(n) \o <<",">> \o TwoDigits(f)

\* The same amount as digits, a decimal point and two digits
PlainText(neg, n, f) ==
  (IF neg THEN <<"-">> ELSE <<>>) \o DigitsOf(n) \o <<".">> \o TwoDigits(f)

\* The same amount in hundredths
Hundredths(neg, n, f) == IF neg THEN 0 - (100 * n + f) ELSE 100 * n + f

Magnitudes == {0, 15, 58, 127, 10823, 1000000}

Fractions == {0, 5, 14, 97}

\* What precedes the number: text in which the pattern does not match
Noise ==
  << <<>>,
     <<"R", "$", " ">>,
     <<"-", "\n", " ", "R", "$", "\n", "\t">>,
     <<"3", "x", " ", "1", ",", "5", " ", "a", ".", "b", " ">>,
     <<"R", "$", ".">> >>

\* What follows the first number, when a second number does
SecondNumbers ==
  << [neg |-> FALSE, n |-> 10823, f |-> 97],
     [neg |-> TRUE, n |-> 1, f |-> 0],
     [neg |-> FALSE, n |-> 0, f |-> 5] >>

\* What ends the text
Suffixes ==
  << <<>>,
     <<"\n">>,
     <<" ", "3", ",", "1", "x">>,
     <<"7">> >>

NumberText(in) ==
  Noise[in.pre] \o DecimalCommaText(in.neg, in.n, in.f)
  \o (IF in.second = 0 THEN <<>>
      ELSE LET x == SecondNumbers[in.second]
           IN <<"\n", " ">> \o DecimalCommaText(x.neg, x.n, x.f))
  \o Suffixes[in.suf]

InitNumber ==
  /\ NoPage /\ ScrapeIdle
  /\ NoDateInput /\ DateIdle
  /\ nin \in [pre : 1..Len(Noise), neg : BOOLEAN, n : Magnitudes, f : Fractions,
              second : 0..Len(SecondNumbers), suf : 1..Len(Suffixes)]
  /\ NumberIdle

CallExtractDecimalCommaString ==
  /\ ncall = "none"
  /\ ncall' = "extract"
  /\ strOut' = extractDecimalCommaString(NumberText(nin))
  /\ UNCHANGED <<scrapeVars, dateVars, nin, numOut>>

CallParseFloatFromDecimalCommaString ==
  /\ ncall = "none"
  /\ ncall' = "parseFloat"
  /\ numOut' = parseFloatFromDecimalCommaString(NumberText(nin))
  /\ UNCHANGED <<scrapeVars, dateVars, nin, strOut>>

NextNumber ==
  CallExtractDecimalCommaString \/ CallParseFloatFromDecimalCommaString

SpecNumber == InitNumber /\ [][NextNumber]_vars

----------------------------------------------------------------------------
(* Properties of the scrape *)

\* The containers the matched marker elements resolve to, in scanned order
ContainersOfMarkers ==
  IF variant = "tbody" THEN TbodyOfMarkers(document) ELSE TableOfMarkers(document)

\* The least position of c in the sequence s
FirstPosition(s, c) ==
  CHOOSE i \in 1..Len(s) : s[i] = c /\ \A j \in 1..Len(s) : s[j] = c => i <= j

\* C1: when the scrape succeeds, every record of BANKTRANLIST has a DTPOSTED
\* whose year is the year of the dueDate scraped from the same document.
C1_YearOfDueDate ==
  (pc = "done" /\ variant = "tbody") =>
    \A i \in 1..Len(BANKTRANLIST) :
      (BANKTRANLIST[i].DTPOSTED.valid /\ dueDate.valid)
        => BANKTRANLIST[i].DTPOSTED.y = dueDate.y

\* C2: the transaction list holds exactly one entry per distinct container
\* the marker elements resolve to, in the order of each container's first
\* appearance in the scanned sequence, and one record per entry.
C2_OnePerContainerInFirstSeenOrder ==
  pc \in {"listDue", "map", "due", "done"} =>
    LET scanned == ContainersOfMarkers
        kept == transactionNodes
    IN /\ \A k \in 1..Len(scanned) :
            Cardinality({i \in 1..Len(kept) : kept[i] = scanned[k]}) = 1
       /\ \A i \in 1..Len(kept) : \E k \in 1..Len(scanned) : scanned[k] = kept[i]
       /\ \A i, j \in 1..Len(kept) :
            i < j => FirstPosition(scanned, kept[i]) < FirstPosition(scanned, kept[j])
       /\ pc \in {"due", "done"} => Len(BANKTRANLIST) = Len(kept)

\* C2's case: a container reached again after another one ([A, B, A]), and
\* the list returned.
C2_Witness ==
  /\ pc = "done"
  /\ Len(BANKTRANLIST) = 2
  /\ \E i, j, k \in 1..Len(ContainersOfMarkers) :
       /\ i < j /\ j < k
       /\ ContainersOfMarkers[i] = ContainersOfMarkers[k]
       /\ ContainersOfMarkers[i] # ContainersOfMarkers[j]

\* The text of node n that no aria-hidden="true" element carries: the texts
\* of n and of its descendants, those that are hidden or below a hidden
\* descendant of n left out.
RECURSIVE VisibleTextFrom(_, _, _)
VisibleTextFrom(d, n, lo) ==
  IF lo > Len(d) THEN <<>>
  ELSE (IF (lo = n \/ IsAncestor(d, n, lo))
           /\ ~d[lo].hidden
           /\ ~\E h \in 1..Len(d) :
                 d[h].hidden /\ IsAncestor(d, h, lo) /\ IsAncestor(d, n, h)
        THEN d[lo].text ELSE <<>>)
       \o VisibleTextFrom(d, n, lo + 1)

\* The amount of container node as its visible text gives it: the first
\* span of the amount cell that is not hidden and whose visible text matches
\* the decimal-comma pattern.
VisibleAmount(d, node) ==
  LET spans == querySelectorAllVisibleSpans(d, findTrnamtTd(d, node).val)
      values == [i \in 1..Len(spans) |->
                   extractDecimalCommaString(VisibleTextFrom(d, spans[i], spans[i]))]
  IN ParseFloat(FirstTruthy(values))

\* Whether the amount cell of container node holds a hidden and a visible span
DualCurrency(d, node) ==
  LET td == findTrnamtTd(d, node).val
  IN /\ \E e \in 1..Len(d) : IsAncestor(d, td, e) /\ d[e].tag = "span" /\ d[e].hidden
     /\ \E e \in 1..Len(d) : IsAncestor(d, td, e) /\ d[e].tag = "span" /\ ~d[e].hidden

\* C3: in a dual-currency row TRNAMT is the first visible candidate that
\* matches the decimal-comma pattern, and no text of a hidden span
\* contributes to it, whatever the nesting and the order of the spans.
C3_AmountFromVisibleTextOnly ==
  (variant = "tbody" /\ pc = "done") =>
    \A i \in 1..Len(BANKTRANLIST) :
      DualCurrency(document, transactionNodes[i])
        => BANKTRANLIST[i].TRNAMT = VisibleAmount(document, transactionNodes[i])

\* Whether the page has the due-date marker with its value element, and the
\* value's text splits on '/' into exactly three runs of digits
DueDateWellFormed(d) ==
  LET venc == getElementsByClassName(d, 0, "c-category-status__venc")
      value == getElementsByClassName(d, venc[1], "c-category-status__value")
      parts == Split(textContent(d, value[1]))
  IN /\ venc # <<>> /\ value # <<>>
     /\ Len(parts) = 3
     /\ \A k \in 1..3 :
          Trim(parts[k]) # <<>> /\ DigitPrefixLen(Trim(parts[k])) = Len(Trim(parts[k]))

\* C8: due-date extraction fails with an error that reaches the caller, and
\* returns no date, whenever the marker element is absent or its text does
\* not split on '/' into exactly three numeric parts.
C8_DueDateFailsWhenMalformed ==
  ~DueDateWellFormed(document) => pc # "done"

\* C9: a candidate without a decimal-comma match is skipped for the next
\* one, and a container none of whose candidates yields a value gives an
\* error, never a record whose TRNAMT is NaN.
C9_NoRecordWithoutAmount ==
  (variant = "tbody" /\ pc = "done") =>
    \A i \in 1..Len(BANKTRANLIST) :
      LET d == document
          spans == querySelectorAllVisibleSpans(
                     d, findTrnamtTd(d, transactionNodes[i]).val)
          matching == {k \in 1..Len(spans) :
                         FirstMatch(textContent(d, spans[k])).def}
      IN /\ matching # {}
         /\ ~BANKTRANLIST[i].TRNAMT.nan
         /\ BANKTRANLIST[i].TRNAMT = ParseFloat(extractDecimalCommaString(
              textContent(d, spans[CHOOSE k \in matching :
                                     \A l \in matching : k <= l])))

\* C10: every container returned by transaction-container discovery is an
\* existing element with at least one descendant matching each of the date,
\* description and amount cell markers.
C10_ContainersHaveAllCells ==
  pc \in {"listDue", "map", "due", "done"} =>
    \A i \in 1..Len(transactionNodes) :
      LET node == transactionNodes[i]
      IN /\ node # null
         /\ getElementsByClassName(document, node, "fatura__table-col-data") # <<>>
         /\ getElementsByClassName(document, node, "fatura__table-col-dsc") # <<>>
         /\ getElementsByClassName(document, node, "fatura__table-col-num") # <<>>

----------------------------------------------------------------------------
(* Properties of the date parsers *)

\* C4: for every valid "dd/mm/yy", white space around it allowed,
\* parseDateFromDaySlashMonthSlashYear returns day dd, month mm, year 2000 + yy.
C4_DayMonthYearExact ==
  (dcall.fn = "dmy" /\ din.d <= DaysInMonth(2000 + dcall.year, din.m)) =>
    dateOut = [valid |-> TRUE, y |-> 2000 + dcall.year, m |-> din.m, d |-> din.d]

\* C4's case: " 24/04/21\n" parsed to 2021-04-24.
C4_Witness ==
  /\ dcall = [fn |-> "dmy", year |-> 21]
  /\ din = [d |-> 24, m |-> 4, fmt |-> 2]
  /\ dateOut = [valid |-> TRUE, y |-> 2021, m |-> 4, d |-> 24]

\* C5 as stated: for every day d, each of the twelve abbreviations and every
\* supplied year y, parseDateFromDaySlashMonth returns day d, the mapped
\* month and year y, whatever the white space around the slash.
C5_DayMonthExactForEveryDayAndYear ==
  (dcall.fn = "dm" /\ din.m <= 12) =>
    dateOut = [valid |-> TRUE, y |-> dcall.year, m |-> din.m, d |-> din.d]

\* C5 amended: the same for every year y outside 0..99 and every day d that
\* the mapped month has in year y.
C5_DayMonthExactForDaysOfTheMonth ==
  (/\ dcall.fn = "dm" /\ din.m <= 12
   /\ dcall.year \notin 0..99
   /\ din.d <= DaysInMonth(dcall.year, din.m)) =>
    dateOut = [valid |-> TRUE, y |-> dcall.year, m |-> din.m, d |-> din.d]

\* C5's case: " 24  /\tabr\n" with year 2023 parsed to 2023-04-24.
C5_Witness ==
  /\ dcall = [fn |-> "dm", year |-> 2023]
  /\ din = [d |-> 24, m |-> 4, fmt |-> 3]
  /\ dateOut = [valid |-> TRUE, y |-> 2023, m |-> 4, d |-> 24]

\* C12 as stated: for a month text that is not one of the twelve lowercase
\* names (or a missing month part) the lookup gives 0 and
\* parseDateFromDaySlashMonth(text, y) returns the given day of December of
\* year y - 1, for any y.
C12_UnknownMonthIsDecemberBeforeAnyYear ==
  (dcall.fn = "dm" /\ din.m > 12) =>
    /\ parseDateComponentsFromDaySlashMonth(
         DayMonthText(din.d, din.m, din.fmt)).month = Num(0)
    /\ dateOut = [valid |-> TRUE, y |-> dcall.year - 1, m |-> 12, d |-> din.d]

\* C12: for a month text that is not one of the twelve lowercase names (or a
\* missing month part), a year y outside 0..99 and a day December has, the
\* lookup gives 0 and parseDateFromDaySlashMonth(text, y) returns a valid
\* date: that day of December of year y - 1.
C12_UnknownMonthIsDecemberBefore ==
  (/\ dcall.fn = "dm" /\ din.m > 12 /\ dcall.year \notin 0..99
   /\ din.d <= DaysInMonth(dcall.year - 1, 12)) =>
    /\ parseDateComponentsFromDaySlashMonth(
         DayMonthText(din.d, din.m, din.fmt)).month = Num(0)
    /\ dateOut = [valid |-> TRUE, y |-> dcall.year - 1, m |-> 12, d |-> din.d]

\* The text "24" alone, without month part, parsed with the year 2020, gave
\* 24 December 2019
C12_Witness ==
  /\ dcall = [fn |-> "dm", year |-> 2020]
  /\ din.m = NoMonthPart /\ din.d = 24
  /\ dateOut = [valid |-> TRUE, y |-> 2019, m |-> 12, d |-> 24]

----------------------------------------------------------------------------
(* Properties of the decimal-comma functions *)

\* C6: for a text holding a decimal-comma number amid other text,
\* extractDecimalCommaString returns the number with every '.' removed and
\* the comma replaced by a point, sign kept, and parsing it as a float gives
\* the signed magnitude.
C6_ExtractNormalises ==
  /\ ncall = "extract" =>
       strOut = [def |-> TRUE, s |-> PlainText(nin.neg, nin.n, nin.f)]
  /\ ncall = "parseFloat" =>
       numOut = Num(Hundredths(nin.neg, nin.n, nin.f))

\* C6's case: noisy text holding "-10.823,97" parsed to -10823.97.
C6_Witness ==
  /\ ncall = "parseFloat"
  /\ nin.pre = 3 /\ nin.neg /\ nin.n = 10823 /\ nin.f = 97 /\ nin.second = 0
  /\ numOut = Num(-1082397)

\* C7 as stated: when the text holds two numbers, the value extracted is the
\* normalised form of the last one.
C7_LastNumberExtracted ==
  (ncall = "extract" /\ nin.second # 0) =>
    LET x == SecondNumbers[nin.second]
    IN strOut = [def |-> TRUE, s |-> PlainText(x.neg, x.n, x.f)]

\* C7 amended: when the text holds two numbers, the value extracted is the
\* normalised form of the first one.
C7_FirstNumberExtracted ==
  (nin.second # 0 /\ ncall # "none") =>
    /\ ncall = "extract" =>
         strOut.def /\ strOut.s = PlainText(nin.neg, nin.n, nin.f)
    /\ ncall = "parseFloat" =>
         ~numOut.nan /\ numOut.v = Hundredths(nin.neg, nin.n, nin.f)

\* C7's case: "-10.823,97\n 10.823,97" gives "-10823.97".
C7_Witness ==
  /\ ncall = "extract"
  /\ nin.pre = 1 /\ nin.neg /\ nin.n = 10823 /\ nin.f = 97 /\ nin.second = 1
  /\ strOut.s = PlainText(TRUE, 10823, 97)

====
